---- MODULE Spec2Model ----
(***************************************************************************)
(* Liseuse (src/app.js): the SpeechEngine narration controller, its text   *)
(* chunker, and the speechSynthesis backend it drives; the page's handlers *)
(* and stored position; and the revisions of the service worker.           *)
(*                                                                         *)
(* A text is a sequence of characters; each character is a one-element     *)
(* string, with "emdash"/"endash" standing for U+2014/U+2013 and "\t" for  *)
(* any whitespace character other than the plain space.                    *)
(***************************************************************************)
EXTENDS Integers, Sequences, FiniteSets, TLC

VARIABLES
  \* ---- SpeechEngine module state (src/app.js:358-370)
  segments,         \* the document's segment texts (by name), as handed to play/playFrom
  isPlaying,
  isPaused,
  currentSegIdx,
  utteranceQueue,
  currentChunkIdx,
  chunkSegmentMap,
  \* ---- the speechSynthesis backend
  synth,            \* utterances submitted by speak() and not yet finished/cancelled
  synthPaused,      \* speechSynthesis.paused
  events,           \* utterance events queued for dispatch to onend/onerror
  \* ---- observation of the engine's outputs
  emitted,          \* callbacks and backend calls made by the last step, in order
  phase,            \* how the last session began/ended: idle, live, stopped, finished
  posLog,           \* ordinals passed to onSegmentChange since the session began
  finishedCount,    \* onFinished calls since the session began
  pauseMark,        \* <<currentSegIdx, currentChunkIdx>> at the last pause(), kept
                    \* while paused and through the resume; else <<>>
  last,             \* the last step: its operation, and for a callback whether the
                    \* utterance was outdated by a later stop or session start
  \* ---- one run of chunkText, statement by statement
  ctext,            \* the argument
  remaining,
  chunks,
  cpc,              \* idle, loop, done
  cuts,             \* hard cuts (no boundary qualified) made by this run
  \* ---- UIController and Persistence (src/app.js:581-594, 619-627)
  saved,            \* `saved`: what Persistence.load() returned when the page started
  stored,           \* the record under STORAGE_KEY in localStorage (fileKey, segIdx)
  currentFileKey,
  \* ---- the service workers (src/sw.js, src/unnamed/part_000, part_001)
  swState,          \* per worker version: none, installed, activated, redundant
  caches,           \* CacheStorage: cache name -> the requests it holds a response for
  puts,             \* cache.put calls issued by a fetch handler and not yet carried out
  answer            \* how the last fetch event was answered

engineVars == <<segments, isPlaying, isPaused, currentSegIdx, utteranceQueue,
                currentChunkIdx, chunkSegmentMap>>
synthVars == <<synth, synthPaused, events>>
obsVars == <<emitted, phase, posLog, finishedCount, pauseMark, last>>
chunkVars == <<ctext, remaining, chunks, cpc, cuts>>
storeVars == <<saved, stored, currentFileKey>>
swVars == <<swState, caches, puts, answer>>
vars == <<engineVars, synthVars, obsVars, chunkVars, storeVars, swVars>>

-----------------------------------------------------------------------------
(* Strings                                                                 *)

MAX_UTTERANCE_LEN == 200

Min(a, b) == IF a < b THEN a ELSE b

\* String.prototype.trim strips these from both ends
IsWs(c) == c \in {" ", "\t"}

\* s.slice(a, b), 0-based, end exclusive
Slice(s, a, b) == SubSeq(s, Min(a, Len(s)) + 1, Min(b, Len(s)))

\* s.slice(a)
SliceFrom(s, a) == Slice(s, a, Len(s))

\* p occurs in s at 0-based index i
OccursAt(s, p, i) == \A k \in 1..Len(p) : s[i + k] = p[k]

\* s.lastIndexOf(p, from): the greatest 0-based index <= from where p occurs, else -1
LastIndexOf(s, p, from) ==
  LET hits == {i \in 0..Min(from, Len(s) - Len(p)) : OccursAt(s, p, i)}
  IN IF hits = {} THEN -1 ELSE CHOOSE i \in hits : \A j \in hits : j <= i

\* the first and last 1-based positions of s at or after / at or before i that hold
\* no whitespace (Len(s) + 1 and 0 when there is none)
RECURSIVE FirstInk(_, _)
FirstInk(s, i) == IF i > Len(s) \/ ~IsWs(s[i]) THEN i ELSE FirstInk(s, i + 1)

RECURSIVE LastInk(_, _)
LastInk(s, i) == IF i < 1 \/ ~IsWs(s[i]) THEN i ELSE LastInk(s, i - 1)

\* String.prototype.trim
Trim(s) == SubSeq(s, FirstInk(s, 1), LastInk(s, Len(s)))

-----------------------------------------------------------------------------
(* chunkText (src/app.js:420-453)                                          *)

\* the marker list with the secondary punctuation tried before the sentence enders
punctuationSecondaryFirst ==
  << <<";", " ">>, <<",", " ">>, <<" ", "emdash", " ">>, <<" ", "endash", " ">>,
     <<":", " ">>, <<".", " ">>, <<"!", " ">>, <<"?", " ">> >>

\* line 433
punctuation ==
  << <<".", " ">>, <<"!", " ">>, <<"?", " ">>, <<";", " ">>, <<",", " ">>,
     <<" ", "emdash", " ">>, <<" ", "endash", " ">>, <<":", " ">> >>

\* idx > MAX_UTTERANCE_LEN * 0.3
BeyondMin(idx) == idx * 10 > MAX_UTTERANCE_LEN * 3

\* the for loop splitting at the marker's index, without `+ p.length`
PunctSplitBeforeMarker(rem) ==
  LET idx == [k \in 1..Len(punctuation) |->
                LastIndexOf(rem, punctuation[k], MAX_UTTERANCE_LEN)]
      hits == {k \in 1..Len(punctuation) : BeyondMin(idx[k])}
  IN IF hits = {} THEN MAX_UTTERANCE_LEN
     ELSE idx[CHOOSE k \in hits : \A j \in hits : k <= j]

\* the for loop over punctuation (lines 435-441): the index after the last
\* occurrence of the first marker type that qualifies, else MAX_UTTERANCE_LEN
PunctSplit(rem) ==
  LET idx == [k \in 1..Len(punctuation) |->
                LastIndexOf(rem, punctuation[k], MAX_UTTERANCE_LEN)]
      hits == {k \in 1..Len(punctuation) : BeyondMin(idx[k])}
  IN IF hits = {} THEN MAX_UTTERANCE_LEN
     ELSE LET k == CHOOSE k \in hits : \A j \in hits : k <= j
          IN idx[k] + Len(punctuation[k])

\* a split that consumes nothing
SplitNowhere(rem) == [at |-> 0, hard |-> TRUE]

\* lines 432-446: splitAt, and whether it is a hard cut (no marker and no space
\* qualified, so the text is cut at MAX_UTTERANCE_LEN wherever that falls)
Split(rem) ==
  LET p == PunctSplit(rem)
      spaceIdx == IF p = MAX_UTTERANCE_LEN
                    THEN LastIndexOf(rem, <<" ">>, MAX_UTTERANCE_LEN) ELSE -1
  IN IF p = MAX_UTTERANCE_LEN /\ BeyondMin(spaceIdx)
       THEN [at |-> spaceIdx + 1, hard |-> FALSE]
       ELSE [at |-> p, hard |-> p = MAX_UTTERANCE_LEN]

SplitAt(rem) == Split(rem).at

\* chunks.push(remaining.slice(0, splitAt).trim())
HeadChunk(rem, at) == Trim(Slice(rem, 0, at))

\* the rest taken one character too far
RestAfterSkipOne(rem, at) == Trim(SliceFrom(rem, at + 1))

\* remaining = remaining.slice(splitAt).trim()
RestAfter(rem, at) == Trim(SliceFrom(rem, at))

NonEmpty(c) == Len(c) > 0

\* the while loop (lines 426-450), from `remaining` with `acc` already pushed
RECURSIVE ChunkLoop(_, _)
ChunkLoop(rem, acc) ==
  IF Len(rem) = 0 THEN acc
  ELSE IF Len(rem) <= MAX_UTTERANCE_LEN THEN Append(acc, rem)
  ELSE LET at == SplitAt(rem)
       IN ChunkLoop(RestAfter(rem, at), Append(acc, HeadChunk(rem, at)))

ChunkText(text) ==
  IF Len(text) <= MAX_UTTERANCE_LEN THEN <<text>>
  ELSE SelectSeq(ChunkLoop(text, <<>>), NonEmpty)

-----------------------------------------------------------------------------
(* Documents                                                               *)

MaxSegs == 2
MaxPending == 2

Word(n, c) == [i \in 1..n |-> c]

\* The texts a segment can hold, by name: empty, one short sentence, and one longer
\* than MAX_UTTERANCE_LEN with a sentence boundary in it (two chunks).
TextNames == {"empty", "short", "long"}

TextOf(name) ==
  CASE name = "empty" -> <<>>
    [] name = "short" -> <<"A", ".">>
    [] name = "long" ->
         Word(MAX_UTTERANCE_LEN - 50, "a") \o <<".", " ">> \o Word(60, "b")

\* chunkText on each text a document can hold
ChunksOf == [t \in TextNames |-> ChunkText(TextOf(t))]

\* a document: the texts of its segments, in order
Docs == UNION {[1..n -> TextNames] : n \in 1..MaxSegs}

-----------------------------------------------------------------------------
(* buildQueue and speakNextChunk (src/app.js:455-511)                      *)

\* the chunks of segments[i..], 0-based i, each paired with its segment index; a
\* chunk is kept as <<text name, k>>, the k-th chunk chunkText cuts from that text
RECURSIVE QueueFrom(_, _)
QueueFrom(segs, i) ==
  IF i >= Len(segs) THEN <<>>
  ELSE LET cs == ChunksOf[segs[i + 1]]
       IN [k \in 1..Len(cs) |-> [text |-> <<segs[i + 1], k>>, seg |-> i]]
            \o QueueFrom(segs, i + 1)

\* utteranceQueue and chunkSegmentMap, as buildQueue pushes them side by side
QueueAndMap(flat) ==
  [queue |-> [k \in 1..Len(flat) |-> flat[k].text],
   map   |-> [k \in 1..Len(flat) |-> flat[k].seg]]

\* buildQueue with its loop starting at the first segment
BuildQueueFromZero(segs, start) == QueueAndMap(QueueFrom(segs, 0))

\* buildQueue: utteranceQueue and chunkSegmentMap, starting at currentSegIdx
BuildQueue(segs, start) == QueueAndMap(QueueFrom(segs, start))

Step(op, stale) == [op |-> op, stale |-> stale]

Note(n, a, b) == [n |-> n, a |-> a, b |-> b]
StateNote(playing, paused) == Note("onStateChange", playing, paused)
SegmentNote(segIdx) == Note("onSegmentChange", segIdx, 0)
FinishedNote == Note("onFinished", 0, 0)
SpeakCall(text, seg) == Note("speak", text, seg)
CancelCall == Note("cancel", 0, 0)
PauseCall == Note("pause", 0, 0)
ResumeCall == Note("resume", 0, 0)
\* an exception leaving the handler
ThrowNote == Note("throw", 0, 0)

\* the calls and callbacks `em` include one named n
Has(em, n) == \E i \in 1..Len(em) : em[i].n = n

\* an utterance handed to speechSynthesis.speak: the chunk it carries, and whether
\* cancel() removed it / a later stop or session start outdated it
Utterance(chunk, seg) == [chunk |-> chunk, seg |-> seg, cancelled |-> FALSE, stale |-> FALSE]

\* the engine's mutable state and outputs, as one record threaded through a handler
Now ==
  [isPlaying |-> isPlaying, isPaused |-> isPaused, currentSegIdx |-> currentSegIdx,
   currentChunkIdx |-> currentChunkIdx, synth |-> synth, emitted |-> <<>>,
   phase |-> phase, posLog |-> posLog, finishedCount |-> finishedCount]

\* speakNextChunk firing onFinished before the state notification
SpeakNextChunkFinishFirst(q, m, st) ==
  IF st.currentChunkIdx >= Len(q)
    THEN [st EXCEPT !.isPlaying = FALSE, !.isPaused = FALSE,
                    !.phase = "finished",
                    !.finishedCount = @ + 1,
                    !.emitted = @ \o <<FinishedNote, StateNote(FALSE, FALSE)>>]
    ELSE LET segIdx == m[st.currentChunkIdx + 1]
         IN [st EXCEPT
               !.currentSegIdx = segIdx,
               !.posLog = Append(@, segIdx),
               !.synth = Append(@, Utterance(st.currentChunkIdx, segIdx)),
               !.emitted = @ \o <<SegmentNote(segIdx),
                                  SpeakCall(q[st.currentChunkIdx + 1], segIdx)>>]

\* speakNextChunk(segments), lines 469-511, on queue q and map m
SpeakNextChunk(q, m, st) ==
  IF st.currentChunkIdx >= Len(q)
    THEN [st EXCEPT !.isPlaying = FALSE, !.isPaused = FALSE,
                    !.phase = "finished",
                    !.finishedCount = @ + 1,
                    !.emitted = @ \o <<StateNote(FALSE, FALSE), FinishedNote>>]
    ELSE LET segIdx == m[st.currentChunkIdx + 1]
         IN [st EXCEPT
               !.currentSegIdx = segIdx,
               !.posLog = Append(@, segIdx),
               !.synth = Append(@, Utterance(st.currentChunkIdx, segIdx)),
               !.emitted = @ \o <<SegmentNote(segIdx),
                                  SpeakCall(q[st.currentChunkIdx + 1], segIdx)>>]

\* speechSynthesis.cancel(): every queued utterance is removed; each still owes its
\* terminal event, which the browser delivers later
CancelAll(evs, sy) ==
  [k \in 1..Len(evs) |-> [evs[k] EXCEPT !.stale = TRUE]]
    \o [k \in 1..Len(sy) |-> [sy[k] EXCEPT !.cancelled = TRUE, !.stale = TRUE]]

-----------------------------------------------------------------------------
(* SpeechEngine operations (src/app.js:513-551)                            *)

\* the handler's result st becomes the next state
Commit(st) ==
  /\ isPlaying' = st.isPlaying
  /\ isPaused' = st.isPaused
  /\ currentSegIdx' = st.currentSegIdx
  /\ currentChunkIdx' = st.currentChunkIdx
  /\ synth' = st.synth
  /\ emitted' = st.emitted
  /\ phase' = st.phase
  /\ posLog' = st.posLog
  /\ finishedCount' = st.finishedCount

Pending == Len(synth) + Len(events)

\* the common body of play() (lines 521-526) and playFrom (lines 544-550), with
\* `built` what buildQueue makes: cancel, go live, notify, speakNextChunk
StartWith(op, start, built) ==
  LET st0 == [Now EXCEPT !.isPlaying = TRUE, !.isPaused = FALSE,
                         !.currentSegIdx = start, !.currentChunkIdx = 0,
                         !.synth = <<>>,
                         !.phase = "live", !.posLog = <<>>, !.finishedCount = 0,
                         !.emitted = <<CancelCall, StateNote(TRUE, FALSE)>>]
  IN /\ utteranceQueue' = built.queue
     /\ chunkSegmentMap' = built.map
     /\ events' = CancelAll(events, synth)
     /\ Commit(SpeakNextChunk(built.queue, built.map, st0))
     /\ pauseMark' = <<>>
     /\ last' = Step(op, FALSE)
     /\ UNCHANGED <<segments, synthPaused, chunkVars>>

\* play() past its resume branch, and playFrom: buildQueue from `start`, and the rest
StartSession(op, start) == StartWith(op, start, BuildQueue(segments, start))

\* play(segments) while paused: lines 514-519
Resume ==
  /\ isPaused
  /\ isPaused' = FALSE
  /\ synthPaused' = FALSE
  /\ emitted' = <<ResumeCall, StateNote(TRUE, FALSE)>>
  /\ last' = Step("resume", FALSE)
  /\ UNCHANGED <<segments, isPlaying, currentSegIdx, utteranceQueue, currentChunkIdx,
                 chunkSegmentMap, synth, events, phase, posLog, finishedCount,
                 pauseMark, chunkVars>>

\* play(segments) otherwise: lines 521-526
Play ==
  /\ ~isPaused
  /\ Pending < MaxPending
  /\ StartSession("play", currentSegIdx)

\* pause() without its guard
PauseAnyState ==
  /\ isPaused' = TRUE
  /\ synthPaused' = TRUE
  /\ emitted' = <<PauseCall, StateNote(TRUE, TRUE)>>
  /\ pauseMark' = <<currentSegIdx, currentChunkIdx>>
  /\ last' = Step("pause", FALSE)
  /\ UNCHANGED <<segments, isPlaying, currentSegIdx, utteranceQueue, currentChunkIdx,
                 chunkSegmentMap, synth, events, phase, posLog, finishedCount,
                 chunkVars>>

\* pause(): lines 529-534
Pause ==
  /\ isPlaying
  /\ isPaused' = TRUE
  /\ synthPaused' = TRUE
  /\ emitted' = <<PauseCall, StateNote(TRUE, TRUE)>>
  /\ pauseMark' = <<currentSegIdx, currentChunkIdx>>
  /\ last' = Step("pause", FALSE)
  /\ UNCHANGED <<segments, isPlaying, currentSegIdx, utteranceQueue, currentChunkIdx,
                 chunkSegmentMap, synth, events, phase, posLog, finishedCount,
                 chunkVars>>

\* pause() when nothing is playing: the early return of line 530
PauseIdle ==
  /\ ~isPlaying
  /\ emitted' = <<>>
  /\ last' = Step("pauseIdle", FALSE)
  /\ pauseMark' = <<>>
  /\ UNCHANGED <<engineVars, synthVars, phase, posLog, finishedCount, chunkVars>>

\* stop() leaving isPaused as it is
StopKeepPaused ==
  /\ synth' = <<>>
  /\ events' = CancelAll(events, synth)
  /\ isPlaying' = FALSE
  /\ phase' = "stopped"
  /\ emitted' = <<CancelCall, StateNote(FALSE, FALSE)>>
  /\ last' = Step("stop", FALSE)
  /\ pauseMark' = <<>>
  /\ UNCHANGED <<segments, isPaused, currentSegIdx, utteranceQueue, currentChunkIdx,
                 chunkSegmentMap, synthPaused, posLog, finishedCount, chunkVars>>

\* stop() leaving isPlaying set
StopKeepPlaying ==
  /\ synth' = <<>>
  /\ events' = CancelAll(events, synth)
  /\ isPaused' = FALSE
  /\ phase' = "stopped"
  /\ emitted' = <<CancelCall, StateNote(FALSE, FALSE)>>
  /\ last' = Step("stop", FALSE)
  /\ pauseMark' = <<>>
  /\ UNCHANGED <<segments, isPlaying, currentSegIdx, utteranceQueue, currentChunkIdx,
                 chunkSegmentMap, synthPaused, posLog, finishedCount, chunkVars>>

\* stop(): lines 536-541
Stop ==
  /\ synth' = <<>>
  /\ events' = CancelAll(events, synth)
  /\ isPlaying' = FALSE
  /\ isPaused' = FALSE
  /\ phase' = "stopped"
  /\ emitted' = <<CancelCall, StateNote(FALSE, FALSE)>>
  /\ last' = Step("stop", FALSE)
  /\ pauseMark' = <<>>
  /\ UNCHANGED <<segments, currentSegIdx, utteranceQueue, currentChunkIdx,
                 chunkSegmentMap, synthPaused, posLog, finishedCount, chunkVars>>

\* playFrom(segIdx, segments) with segIdx < 0: lines 544-547 run, buildQueue empties
\* the queue and the map (456-457), and its loop starts at segments[segIdx], which is
\* undefined: reading its .text throws a TypeError out of playFrom
PlayFromThrows(op, segIdx) ==
  /\ synth' = <<>>
  /\ events' = CancelAll(events, synth)
  /\ currentSegIdx' = segIdx
  /\ isPlaying' = TRUE
  /\ isPaused' = FALSE
  /\ utteranceQueue' = <<>>
  /\ chunkSegmentMap' = <<>>
  /\ emitted' = <<CancelCall, ThrowNote>>
  /\ phase' = "live"
  /\ posLog' = <<>>
  /\ finishedCount' = 0
  /\ pauseMark' = <<>>
  /\ last' = Step(op, FALSE)
  /\ UNCHANGED <<segments, currentChunkIdx, synthPaused, chunkVars>>

\* playFrom(segIdx, segments), lines 543-551, called on behalf of `op`
PlayFromBy(op, segIdx) ==
  /\ Pending < MaxPending
  /\ IF segIdx < 0 THEN PlayFromThrows(op, segIdx) ELSE StartSession(op, segIdx)

\* playFrom(segIdx, segments): lines 543-551
PlayFrom(segIdx) == PlayFromBy("playFrom", segIdx)

-----------------------------------------------------------------------------
(* The speechSynthesis backend and the utterance callbacks                 *)

\* the utterance at the head of the backend's queue is spoken to its end (or fails);
\* its terminal event is queued for dispatch
SynthFinish ==
  /\ synth # <<>>
  /\ ~synthPaused
  /\ events' = Append(events, Head(synth))
  /\ synth' = Tail(synth)
  /\ emitted' = <<>>
  /\ last' = Step("synthFinish", FALSE)
  /\ pauseMark' = IF isPaused THEN pauseMark ELSE <<>>
  /\ UNCHANGED <<engineVars, synthPaused, phase, posLog, finishedCount, chunkVars>>

\* the callbacks never going on to the next chunk
ContinueNever(st) == st

\* what the two callbacks do after their own bookkeeping (lines 496-498, 505-507)
Continue(st) ==
  IF st.isPlaying /\ ~st.isPaused
    THEN SpeakNextChunk(utteranceQueue, chunkSegmentMap, st)
    ELSE st

\* utt.onend: lines 491-499
OnEnd(e) ==
  LET idx == currentChunkIdx + 1
      st1 == [Now EXCEPT !.currentChunkIdx = idx,
                         !.currentSegIdx = IF idx < Len(chunkSegmentMap)
                                             THEN chunkSegmentMap[idx + 1] ELSE @]
  IN Continue(st1)

\* utt.onerror without the test of line 502
OnErrorAnyCode(e, code) == Continue([Now EXCEPT !.currentChunkIdx = @ + 1])

\* utt.onerror: lines 501-508
OnError(e, code) ==
  IF code \in {"interrupted", "canceled"} THEN Now
  ELSE Continue([Now EXCEPT !.currentChunkIdx = @ + 1])

\* the event an utterance can deliver: one that ran to its end delivers end or a
\* synthesis error; what a cancelled one delivers is the browser's choice
Outcomes(e) ==
  IF e.cancelled THEN {"end", "interrupted", "canceled", "synthesis-failed"}
  ELSE {"end", "synthesis-failed"}

DispatchEnd ==
  /\ events # <<>>
  /\ "end" \in Outcomes(Head(events))
  /\ events' = Tail(events)
  /\ Commit(OnEnd(Head(events)))
  /\ last' = Step("onend", Head(events).stale)
  /\ pauseMark' = IF isPaused' THEN pauseMark ELSE <<>>
  /\ UNCHANGED <<segments, utteranceQueue, chunkSegmentMap, synthPaused, chunkVars>>

DispatchError(code) ==
  /\ events # <<>>
  /\ code \in Outcomes(Head(events)) \ {"end"}
  /\ events' = Tail(events)
  /\ Commit(OnError(Head(events), code))
  /\ last' = Step("onerror", Head(events).stale)
  /\ pauseMark' = IF isPaused' THEN pauseMark ELSE <<>>
  /\ UNCHANGED <<segments, utteranceQueue, chunkSegmentMap, synthPaused, chunkVars>>

-----------------------------------------------------------------------------
(* Persistence (src/app.js:581-594) and the state around the engine        *)

\* null: currentFileKey before a file is opened (line 620)
Null == "null"

\* Persistence.load() with nothing usable under STORAGE_KEY (lines 588-592): null.
\* loadPDF treats it as a record whose fileKey matches no file (line 670).
NoSave == [fileKey |-> Null, segIdx |-> 0]

\* makeFileKey(file), line 593, names the file; a file is its key and its segments
FileKey(file) == file.key

\* the fields of the record persistState() saves that bear on the position
\* (lines 914-926): fileKey and segIdx
PersistedState(fileKey, segIdx) == [fileKey |-> fileKey, segIdx |-> segIdx]

\* no page: nothing stored, no file
StoreOff ==
  /\ saved = NoSave
  /\ stored = NoSave
  /\ currentFileKey = Null

\* the three revisions of the service worker, oldest first
Versions == <<"v1", "v3", "v4">>

VersionSet == {Versions[i] : i \in 1..Len(Versions)}

\* a request: the origin and the path of e.request.url
Request(origin, path) == [origin |-> origin, path |-> path]

NoAnswer == [worker |-> "none", req |-> Request("none", "none"), from |-> "none"]

\* no worker registered, and the caches other code of the origin has made
\* the caches of the origin: the workers' own, and those other code keeps
CacheNames == {"liseuse-v1", "liseuse-v3", "liseuse-v4", "transformers-cache",
               "my-transformers"}

\* a cache that does not exist (caches.keys() omits it, caches.match skips it)
Absent == {[origin |-> "absent", path |-> "absent"]}

WorkersOff ==
  /\ swState = [v \in VersionSet |-> "none"]
  /\ caches = [k \in CacheNames |-> Absent]
  /\ puts = {}
  /\ answer = NoAnswer

\* the engine on its own: no handler of the page runs, no worker
Unwired == UNCHANGED <<storeVars, swVars>>

-----------------------------------------------------------------------------
(* The engine under every interleaving of calls and callbacks              *)

Init ==
  /\ segments \in Docs
  /\ isPlaying = FALSE
  /\ isPaused = FALSE
  /\ currentSegIdx = 0
  /\ utteranceQueue = <<>>
  /\ currentChunkIdx = 0
  /\ chunkSegmentMap = <<>>
  /\ synth = <<>>
  /\ synthPaused = FALSE
  /\ events = <<>>
  /\ emitted = <<>>
  /\ phase = "idle"
  /\ posLog = <<>>
  /\ finishedCount = 0
  /\ pauseMark = <<>>
  /\ last = Step("init", FALSE)
  /\ ctext = <<>>
  /\ remaining = <<>>
  /\ chunks = <<>>
  /\ cpc = "off"
  /\ cuts = 0
  /\ StoreOff
  /\ WorkersOff

Next ==
  \/ Play /\ Unwired
  \/ Resume /\ Unwired
  \/ Pause /\ Unwired
  \/ PauseIdle /\ Unwired
  \/ Stop /\ Unwired
  \/ \E i \in 0..(Len(segments) - 1) : PlayFrom(i) /\ Unwired
  \/ SynthFinish /\ Unwired
  \/ DispatchEnd /\ Unwired
  \/ \E code \in {"interrupted", "canceled", "synthesis-failed"} :
       DispatchError(code) /\ Unwired

Spec == Init /\ [][Next]_vars

\* One session on its own: started once from idle, paused and resumed at will, and
\* never stopped or restarted, so that every callback belongs to the live session.
SoloPlayFrom(segIdx) == phase = "idle" /\ PlayFrom(segIdx)

NextSolo ==
  \/ \E i \in 0..(Len(segments) - 1) : SoloPlayFrom(i) /\ Unwired
  \/ Pause /\ Unwired
  \/ Resume /\ Unwired
  \/ SynthFinish /\ Unwired
  \/ DispatchEnd /\ Unwired
  \/ DispatchError("synthesis-failed") /\ Unwired

SpecSolo == Init /\ [][NextSolo]_vars

\* Sessions started at will and never paused or stopped, on a backend that
\* delivers the terminal event of every utterance it was handed.
NextRun ==
  \/ Play /\ Unwired
  \/ \E i \in 0..(Len(segments) - 1) : PlayFrom(i) /\ Unwired
  \/ SynthFinish /\ Unwired
  \/ DispatchEnd /\ Unwired
  \/ \E code \in {"interrupted", "canceled", "synthesis-failed"} :
       DispatchError(code) /\ Unwired

Deliver ==
  \/ DispatchEnd /\ Unwired
  \/ \E code \in {"interrupted", "canceled", "synthesis-failed"} :
       DispatchError(code) /\ Unwired

SpecRun ==
  Init /\ [][NextRun]_vars /\ WF_vars(SynthFinish /\ Unwired) /\ WF_vars(Deliver)

-----------------------------------------------------------------------------
(* UIController (src/app.js:600-940): the handlers that drive the engine   *)

\* the documents PDFManager.load can return: any number of segments, none blank
\* (lines 273, 317, 339)
PDFDocs == {<<>>, <<"short">>, <<"long", "short">>}

\* the files the picker can hand to loadPDF: one per document, under its own key
PDFFiles ==
  {[key |-> <<"empty.pdf|1", "short.pdf|2", "long.pdf|3">>[Len(doc) + 1], doc |-> doc] :
     doc \in PDFDocs}

\* the cursor positions a previous visit can have left in storage (saved.segIdx)
SavedSegIdxs == {0, 1, 2}

\* what Persistence.load() can return at line 627: nothing, or the record a previous
\* visit left for one of the files
SavedStates ==
  {NoSave} \cup {PersistedState(FileKey(f), i) : f \in PDFFiles, i \in SavedSegIdxs}

\* persistState() as the last statement of a handler (lines 780, 791, 846, 905):
\* the record is written with the file key and the engine's cursor as the handler
\* leaves them
ThenPersist ==
  /\ stored' = PersistedState(currentFileKey, currentSegIdx')
  /\ UNCHANGED <<saved, currentFileKey, swVars>>

\* the page's callbacks with onSegmentChange not persisting
WiredNoPersist == UNCHANGED <<storeVars, swVars>>

\* the callbacks the page registered (lines 711-724) as they run inside a handler of
\* the engine: onSegmentChange(idx) calls persistState(), which reads
\* getSegmentIndex() when the callback runs, the ordinal the callback was given
\* (lines 483-484)
Wired ==
  /\ stored' =
       IF Has(emitted', "onSegmentChange")
         THEN LET k == CHOOSE k \in 1..Len(emitted') :
                         /\ emitted'[k].n = "onSegmentChange"
                         /\ \A j \in (k + 1)..Len(emitted') :
                              emitted'[j].n # "onSegmentChange"
              IN PersistedState(currentFileKey, emitted'[k].a)
         ELSE stored
  /\ UNCHANGED <<saved, currentFileKey, swVars>>

\* a handler that neither persists nor has a callback run
Quiet == UNCHANGED <<storeVars, swVars>>

\* loadPDF(file), lines 657-700: the position is restored from `saved` (line 670)
LoadPDF(file) ==
  /\ segments' = file.doc
  /\ currentFileKey' = FileKey(file)
  /\ currentSegIdx' = IF saved.fileKey = FileKey(file)
                        THEN Min(saved.segIdx, Len(file.doc) - 1)
                        ELSE 0
  /\ emitted' = <<>>
  /\ last' = Step("loadPDF", FALSE)
  /\ UNCHANGED <<isPlaying, isPaused, utteranceQueue, currentChunkIdx, chunkSegmentMap,
                 synthVars, phase, posLog, finishedCount, pauseMark, chunkVars,
                 saved, stored, swVars>>

\* onSegmentTap(idx), lines 703-708, for a segment of the loaded document
OnSegmentTap(idx) == PlayFrom(idx) /\ Wired

\* the play button, lines 767-775
PlayBtnClick ==
  /\ Len(segments) # 0
  /\ IF isPlaying /\ ~isPaused THEN Pause ELSE (Resume \/ Play)
  /\ Wired

\* the stop button, lines 777-781
StopBtnClick == Stop /\ ThenPersist

\* a setting change that restarts the session at the first segment
SettingChangeFromStart ==
  IF isPlaying
    THEN /\ PlayFromBy("restart", 0)
         /\ IF Has(emitted', "throw") THEN Quiet ELSE ThenPersist
    ELSE /\ emitted' = <<>>
         /\ last' = Step("setting", FALSE)
         /\ UNCHANGED <<engineVars, synthVars, phase, posLog, finishedCount, pauseMark,
                        chunkVars>>
         /\ ThenPersist

\* the speed slider, the language toggle and the voice menu (lines 784-792, 830-847,
\* 899-906): with a session live, restart it at the cursor; then persistState(),
\* which an exception thrown by playFrom leaves unreached
SettingChange ==
  IF isPlaying
    THEN /\ PlayFromBy("restart", currentSegIdx)
         /\ IF Has(emitted', "throw") THEN Quiet ELSE ThenPersist
    ELSE /\ emitted' = <<>>
         /\ last' = Step("setting", FALSE)
         /\ UNCHANGED <<engineVars, synthVars, phase, posLog, finishedCount, pauseMark,
                        chunkVars>>
         /\ ThenPersist

\* the page as opened: no document, and `saved` read from storage (line 627)
InitUI ==
  /\ segments = <<>>
  /\ isPlaying = FALSE
  /\ isPaused = FALSE
  /\ currentSegIdx = 0
  /\ utteranceQueue = <<>>
  /\ currentChunkIdx = 0
  /\ chunkSegmentMap = <<>>
  /\ synth = <<>>
  /\ synthPaused = FALSE
  /\ events = <<>>
  /\ emitted = <<>>
  /\ phase = "idle"
  /\ posLog = <<>>
  /\ finishedCount = 0
  /\ pauseMark = <<>>
  /\ last = Step("init", FALSE)
  /\ ctext = <<>>
  /\ remaining = <<>>
  /\ chunks = <<>>
  /\ cpc = "off"
  /\ cuts = 0
  /\ saved \in SavedStates
  /\ stored = saved
  /\ currentFileKey = Null
  /\ WorkersOff

NextUI ==
  \/ \E file \in PDFFiles : LoadPDF(file)
  \/ \E idx \in 0..(Len(segments) - 1) : OnSegmentTap(idx)
  \/ PlayBtnClick
  \/ StopBtnClick
  \/ SettingChange
  \/ SynthFinish /\ Quiet
  \/ DispatchEnd /\ Wired
  \/ \E code \in {"interrupted", "canceled", "synthesis-failed"} :
       DispatchError(code) /\ Wired

SpecUI == InitUI /\ [][NextUI]_vars

-----------------------------------------------------------------------------
(* The service workers: src/unnamed/part_000 (v1), src/sw.js (v3) and      *)
(* src/unnamed/part_001 (v4), as successive revisions of ./sw.js           *)

\* const CACHE_NAME
CACHE_NAME(v) ==
  CASE v = "v1" -> "liseuse-v1"
    [] v = "v3" -> "liseuse-v3"
    [] v = "v4" -> "liseuse-v4"

\* location.origin
Location == "self"

\* const APP_SHELL, resolved against the worker's location
APP_SHELL ==
  {Request(Location, path) :
     path \in {"./", "./index.html", "./styles.css", "./app.js", "./manifest.json"}}

\* the requests of the page that reach a fetch handler: files of the app, in
\* APP_SHELL or not, and files of other origins
Requests ==
  {Request(Location, "./index.html"), Request(Location, "./icon.png"),
   Request("cdnjs", "pdf.min.mjs"), Request("huggingface", "model.onnx")}

\* url.origin !== location.origin, negated
SameOrigin(req) == req.origin = Location

\* k.startsWith(p)
StartsWith(k, p) == Len(k) >= Len(p) /\ SubSeq(k, 1, Len(p)) = p

\* caches.match(req): a response for req held by any cache of the origin
Match(req) == \E k \in CacheNames : caches[k] # Absent /\ req \in caches[k]

\* caches.open(name): the cache's entries, created empty if it did not exist
Opened(name) == IF caches[name] = Absent THEN {} ELSE caches[name]

Answer(v, req, from) == [worker |-> v, req |-> req, from |-> from]

sameVars == <<engineVars, synthVars, obsVars, chunkVars, storeVars>>

\* install (part_000:13-18, sw.js:4-7, part_001:17-22): the cache is opened and
\* APP_SHELL added, all of it or (ok = FALSE: a file could not be fetched) none of it
\* and the installation fails; skipWaiting() makes the activation follow within
\* the same registration job, before any other worker is installed.
\* A revision is registered while no later one has been.
Install(v, ok) ==
  /\ swState[v] = "none"
  /\ \A w \in VersionSet : swState[w] # "installed"
  /\ \A i, j \in 1..Len(Versions) : (Versions[i] = v /\ i < j) => swState[Versions[j]] = "none"
  /\ caches' = [caches EXCEPT ![CACHE_NAME(v)] =
                  IF ok THEN Opened(CACHE_NAME(v)) \cup APP_SHELL
                  ELSE Opened(CACHE_NAME(v))]
  /\ swState' = [swState EXCEPT ![v] = IF ok THEN "installed" ELSE "redundant"]
  /\ UNCHANGED <<puts, answer, sameVars>>

\* activate keeping only the worker's own cache, whatever the revision
KeepsOwnOnly(v, k) == k = CACHE_NAME(v)

\* the filters of the activate handler, negated: the caches it does not delete
\* (part_000:23, sw.js:11, part_001:29-31)
Keeps(v, k) ==
  IF v = "v4" THEN k = CACHE_NAME(v) \/ StartsWith(k, "transformers")
  ELSE k = CACHE_NAME(v)

\* activate (part_000:20-27, sw.js:9-14, part_001:24-37): every cache of
\* caches.keys() that the filters let through is deleted; the worker takes over
Activate(v) ==
  /\ swState[v] = "installed"
  /\ caches' = [k \in CacheNames |-> IF Keeps(v, k) THEN caches[k] ELSE Absent]
  /\ swState' = [w \in VersionSet |->
                   IF w = v THEN "activated"
                   ELSE IF swState[w] = "activated" THEN "redundant"
                   ELSE swState[w]]
  /\ UNCHANGED <<puts, answer, sameVars>>

\* respondWith(caches.match(req).then(cached => cached || fetch(req)))
\* (part_000:47-49, sw.js:35-37, part_001:48-50)
CacheFirst(v, req, netOk) ==
  /\ answer' = Answer(v, req, IF Match(req) THEN "cache"
                              ELSE IF netOk THEN "network" ELSE "error")
  /\ UNCHANGED <<swState, caches, puts, sameVars>>

\* the network-first branch without the cache.put
NetworkFirstNoCopy(v, req, netOk) ==
  /\ answer' = Answer(v, req, IF netOk THEN "network"
                              ELSE IF Match(req) THEN "cache" ELSE "error")
  /\ UNCHANGED <<swState, caches, puts, sameVars>>

\* respondWith(fetch(req).then(res => {...put a clone...; return res})
\*                       .catch(() => caches.match(req)))
\* (part_000:34-42, sw.js:22-30): the put is started and not waited for
NetworkFirst(v, req, netOk) ==
  /\ answer' = Answer(v, req, IF netOk THEN "network"
                              ELSE IF Match(req) THEN "cache" ELSE "error")
  /\ puts' = IF netOk THEN puts \cup {[cache |-> CACHE_NAME(v), req |-> req]}
             ELSE puts
  /\ UNCHANGED <<swState, caches, sameVars>>

\* `return` before respondWith (part_001:45): the browser handles the request itself
PassThrough(v, req, netOk) ==
  /\ answer' = Answer(v, req, IF netOk THEN "browser" ELSE "error")
  /\ UNCHANGED <<swState, caches, puts, sameVars>>

\* fetch, v1 (part_000:29-50)
FetchV1(req, netOk) ==
  /\ swState["v1"] = "activated"
  /\ IF ~SameOrigin(req) THEN NetworkFirst("v1", req, netOk)
     ELSE CacheFirst("v1", req, netOk)

\* fetch, v3 (sw.js:16-38)
FetchV3(req, netOk) ==
  /\ swState["v3"] = "activated"
  /\ IF ~SameOrigin(req) THEN NetworkFirst("v3", req, netOk)
     ELSE CacheFirst("v3", req, netOk)

\* v4 answering other origins as v3 does
FetchV4Intercepting(req, netOk) ==
  /\ swState["v4"] = "activated"
  /\ IF ~SameOrigin(req) THEN NetworkFirst("v4", req, netOk)
     ELSE CacheFirst("v4", req, netOk)

\* fetch, v4 (part_001:39-51)
FetchV4(req, netOk) ==
  /\ swState["v4"] = "activated"
  /\ IF ~SameOrigin(req) THEN PassThrough("v4", req, netOk)
     ELSE CacheFirst("v4", req, netOk)

\* caches.open(CACHE_NAME).then(c => c.put(req, clone)) carried out, whatever has
\* become of the worker and of the cache since (part_000:38, sw.js:26)
PutDone(p) ==
  /\ p \in puts
  /\ caches' = [caches EXCEPT ![p.cache] = Opened(p.cache) \cup {p.req}]
  /\ puts' = puts \ {p}
  /\ UNCHANGED <<swState, answer, sameVars>>

\* the caches that code of the page other than the workers keeps, such as the one
\* transformers.js fills with model files (part_001:3-4)
LibraryNames == {"transformers-cache", "my-transformers"}

\* such code storing a model file in its cache
LibraryPut(k) ==
  /\ k \in LibraryNames
  /\ Request("huggingface", "model.onnx") \notin Opened(k)
  /\ caches' = [caches EXCEPT ![k] = Opened(k) \cup {Request("huggingface", "model.onnx")}]
  /\ UNCHANGED <<swState, puts, answer, sameVars>>

\* the caches of the origin when the first worker arrives
LibraryCaches ==
  {[k \in CacheNames |-> IF k \in held THEN {Request("huggingface", "model.onnx")}
                         ELSE Absent] :
     held \in SUBSET LibraryNames}

InitSW ==
  /\ segments = <<>>
  /\ isPlaying = FALSE
  /\ isPaused = FALSE
  /\ currentSegIdx = 0
  /\ utteranceQueue = <<>>
  /\ currentChunkIdx = 0
  /\ chunkSegmentMap = <<>>
  /\ synth = <<>>
  /\ synthPaused = FALSE
  /\ events = <<>>
  /\ emitted = <<>>
  /\ phase = "idle"
  /\ posLog = <<>>
  /\ finishedCount = 0
  /\ pauseMark = <<>>
  /\ last = Step("init", FALSE)
  /\ ctext = <<>>
  /\ remaining = <<>>
  /\ chunks = <<>>
  /\ cpc = "off"
  /\ cuts = 0
  /\ StoreOff
  /\ swState = [v \in VersionSet |-> "none"]
  /\ caches \in LibraryCaches
  /\ puts = {}
  /\ answer = NoAnswer

NextSW ==
  \/ \E v \in VersionSet, ok \in BOOLEAN : Install(v, ok)
  \/ \E v \in VersionSet : Activate(v)
  \/ \E req \in Requests, netOk \in BOOLEAN : FetchV1(req, netOk)
  \/ \E req \in Requests, netOk \in BOOLEAN : FetchV3(req, netOk)
  \/ \E req \in Requests, netOk \in BOOLEAN : FetchV4(req, netOk)
  \/ \E p \in puts : PutDone(p)
  \/ \E k \in LibraryNames : LibraryPut(k)

SpecSW == InitSW /\ [][NextSW]_vars

-----------------------------------------------------------------------------
(* chunkText run statement by statement on a family of texts               *)

EdgeSlack == 2

\* separators placed between the words of an input
Seps ==
  {<<>>, <<" ">>, <<"\t">>, <<".", " ">>, <<",", " ">>, <<" ", "emdash", " ">>}

\* where the first separator starts: around the 0.3 * MAX_UTTERANCE_LEN threshold
HeadLens ==
  {0, 2, (MAX_UTTERANCE_LEN * 3) \div 10 - 1, (MAX_UTTERANCE_LEN * 3) \div 10,
   (MAX_UTTERANCE_LEN * 3) \div 10 + 1, MAX_UTTERANCE_LEN - 70}

\* where the second separator starts: around MAX_UTTERANCE_LEN, and two short ones
MidStarts ==
  {8, MAX_UTTERANCE_LEN - 50}
    \cup ((MAX_UTTERANCE_LEN - EdgeSlack)..(MAX_UTTERANCE_LEN + EdgeSlack))

\* the last word: none, short, or longer than MAX_UTTERANCE_LEN
TailLens == {0, 3, MAX_UTTERANCE_LEN + 5}

\* a^n1 m1 b^n2 m2 c^n3, with m2 starting at 0-based index d
InputText(n1, m1, d, m2, n3) ==
  Word(n1, "a") \o m1 \o Word(d - n1 - Len(m1), "b") \o m2 \o Word(n3, "c")

InputTexts ==
  {InputText(n1, m1, d, m2, n3) :
     n1 \in HeadLens, m1 \in Seps, d \in MidStarts, m2 \in Seps, n3 \in TailLens}

InitChunk ==
  /\ segments = <<>>
  /\ isPlaying = FALSE
  /\ isPaused = FALSE
  /\ currentSegIdx = 0
  /\ utteranceQueue = <<>>
  /\ currentChunkIdx = 0
  /\ chunkSegmentMap = <<>>
  /\ synth = <<>>
  /\ synthPaused = FALSE
  /\ events = <<>>
  /\ emitted = <<>>
  /\ phase = "idle"
  /\ posLog = <<>>
  /\ finishedCount = 0
  /\ pauseMark = <<>>
  /\ last = Step("init", FALSE)
  /\ ctext \in InputTexts
  /\ remaining = <<>>
  /\ chunks = <<>>
  /\ cpc = "call"
  /\ cuts = 0
  /\ StoreOff
  /\ WorkersOff

notChunkVars == <<engineVars, synthVars, obsVars, storeVars, swVars>>

\* line 421: a text within the limit is returned as the only chunk
ChunkShort ==
  /\ cpc = "call"
  /\ Len(ctext) <= MAX_UTTERANCE_LEN
  /\ chunks' = <<ctext>>
  /\ cpc' = "done"
  /\ UNCHANGED <<ctext, remaining, cuts, notChunkVars>>

\* lines 423-424
ChunkEnter ==
  /\ cpc = "call"
  /\ Len(ctext) > MAX_UTTERANCE_LEN
  /\ chunks' = <<>>
  /\ remaining' = ctext
  /\ cpc' = "loop"
  /\ UNCHANGED <<ctext, cuts, notChunkVars>>

\* lines 427-430: the rest fits, push it and break
ChunkLast ==
  /\ cpc = "loop"
  /\ Len(remaining) > 0
  /\ Len(remaining) <= MAX_UTTERANCE_LEN
  /\ chunks' = Append(chunks, remaining)
  /\ cpc' = "filter"
  /\ UNCHANGED <<ctext, remaining, cuts, notChunkVars>>

\* lines 432-449: one split
ChunkSplit ==
  /\ cpc = "loop"
  /\ Len(remaining) > MAX_UTTERANCE_LEN
  /\ LET sp == Split(remaining)
     IN /\ chunks' = Append(chunks, HeadChunk(remaining, sp.at))
        /\ remaining' = RestAfter(remaining, sp.at)
        /\ cuts' = cuts + (IF sp.hard THEN 1 ELSE 0)
  /\ UNCHANGED <<ctext, cpc, notChunkVars>>

\* line 426: the loop condition fails
ChunkExit ==
  /\ cpc = "loop"
  /\ Len(remaining) = 0
  /\ cpc' = "filter"
  /\ UNCHANGED <<ctext, remaining, chunks, cuts, notChunkVars>>

\* line 452
ChunkReturn ==
  /\ cpc = "filter"
  /\ chunks' = SelectSeq(chunks, NonEmpty)
  /\ cpc' = "done"
  /\ UNCHANGED <<ctext, remaining, cuts, notChunkVars>>

NextChunk ==
  \/ ChunkShort
  \/ ChunkEnter
  \/ ChunkLast
  \/ ChunkSplit
  \/ ChunkExit
  \/ ChunkReturn

SpecChunk == InitChunk /\ [][NextChunk]_vars

-----------------------------------------------------------------------------
(* Measures on texts used to state the chunking properties                 *)

\* the maximal whitespace-free runs ("words") of s
RunsOf(s) ==
  LET ink(i) == i >= 1 /\ i <= Len(s) /\ ~IsWs(s[i])
      starts == {i \in 1..Len(s) : ink(i) /\ ~ink(i - 1)}
      ends == {i \in 1..Len(s) : ink(i) /\ ~ink(i + 1)}
  IN {SubSeq(s, i, CHOOSE j \in ends : j >= i /\ \A j2 \in ends : j2 >= i => j <= j2) :
        i \in starts}

\* s holds a word of more than n characters
HasLongRun(s, n) == \E r \in RunsOf(s) : Len(r) > n

IsInk(c) == ~IsWs(c)

\* s without its whitespace
Ink(s) == SelectSeq(s, IsInk)

RECURSIVE JoinWith(_, _)
\* cs.join(sep)
JoinWith(cs, sep) ==
  IF Len(cs) = 0 THEN <<>>
  ELSE IF Len(cs) = 1 THEN cs[1]
  ELSE cs[1] \o sep \o JoinWith(Tail(cs), sep)

KeepFlag(pair) == pair[2]

\* whitespace normalisation: every whitespace run becomes one space, ends trimmed
Normalize(s) ==
  LET t == Trim(s)
      flagged == [i \in 1..Len(t) |->
                    <<IF IsWs(t[i]) THEN " " ELSE t[i],
                      ~(IsWs(t[i]) /\ IsWs(t[i - 1]))>>]
      kept == SelectSeq(flagged, KeepFlag)
  IN [i \in 1..Len(kept) |-> kept[i][1]]

-----------------------------------------------------------------------------
(* Chunking properties (specification SpecChunk)                           *)

\* C8 (as claimed): when no word of the text is longer than MAX_UTTERANCE_LEN, every
\* chunk chunkText returns is at most MAX_UTTERANCE_LEN characters long.
C8_ChunkBound ==
  (cpc = "done" /\ ~HasLongRun(ctext, MAX_UTTERANCE_LEN))
    => \A k \in 1..Len(chunks) : Len(chunks[k]) <= MAX_UTTERANCE_LEN

C10_JoinRoundTrip ==
  cpc = "done" => Normalize(JoinWith(chunks, <<" ">>)) = Normalize(ctext)

\* C10 (amended): the same round trip, for every text chunkText splits only after a
\* boundary marker or a space (no hard cut at MAX_UTTERANCE_LEN).
C10_JoinRoundTripNoHardCut ==
  (cpc = "done" /\ cuts = 0)
    => Normalize(JoinWith(chunks, <<" ">>)) = Normalize(ctext)

\* a text longer than the limit has been split, at markers only, into several chunks
C10_Witness ==
  /\ cpc = "done"
  /\ cuts = 0
  /\ Len(ctext) > MAX_UTTERANCE_LEN
  /\ Len(chunks) >= 2

\* the step just taken is one iteration of the while loop that split `remaining`
IsSplitStep == cpc = "loop" /\ Len(remaining) > MAX_UTTERANCE_LEN

\* what is left for a run of chunkText to do: the characters still to be chunked,
\* plus the statements after the loop
ChunkMeasure ==
  CASE cpc = "call" -> Len(ctext) + 3
    [] cpc = "loop" -> Len(remaining) + 2
    [] cpc = "filter" -> 1
    [] OTHER -> 0

\* C11: chunkText returns on every text: every statement of a call brings its
\* return strictly closer (ChunkMeasure is a natural number that decreases), and
\* each iteration of the loop takes a split point of at least 1 and leaves
\* `remaining` strictly shorter, so that the iterations never outnumber the
\* characters of the text.
C11_Terminates ==
  [][/\ ChunkMeasure' < ChunkMeasure
     /\ ChunkMeasure' >= 0
     /\ IsSplitStep
          => /\ SplitAt(remaining) >= 1
             /\ Len(remaining') < Len(remaining)
             /\ Len(chunks') = Len(chunks) + 1
             /\ Len(chunks') + Len(remaining') <= Len(ctext)]_vars

\* a text of more than twice the limit has been returned after several iterations
C11_Witness ==
  /\ cpc = "done"
  /\ Len(ctext) > 2 * MAX_UTTERANCE_LEN
  /\ Len(chunks) >= 3

\* the boundary markers by the priority the chunker gives them: the sentence
\* terminators in their order, then the secondary punctuation, then the plain space
MarkerRank(p) ==
  CASE p = <<".", " ">> -> 1
    [] p = <<"!", " ">> -> 2
    [] p = <<"?", " ">> -> 3
    [] p = <<" ">> -> 5
    [] OTHER -> 4

Markers ==
  {<<".", " ">>, <<"!", " ">>, <<"?", " ">>, <<";", " ">>, <<":", " ">>, <<",", " ">>,
   <<" ", "emdash", " ">>, <<" ", "endash", " ">>, <<" ">>}

\* the 0-based indexes at most MAX_UTTERANCE_LEN where marker p occurs in s
OccurrencesOf(s, p) ==
  {i \in 0..MAX_UTTERANCE_LEN : i + Len(p) <= Len(s) /\ OccursAt(s, p, i)}

\* marker p occurs in s beyond 0.3 * MAX_UTTERANCE_LEN and at most at MAX_UTTERANCE_LEN
Qualifies(s, p) == \E i \in OccurrencesOf(s, p) : 10 * i > 3 * MAX_UTTERANCE_LEN

LastOccurrence(s, p) ==
  CHOOSE i \in OccurrencesOf(s, p) : \A j \in OccurrencesOf(s, p) : j <= i

\* the iteration pushed the prefix of `remaining` that ends at index `at`, trimmed,
\* and went on with the rest, trimmed
CutAt(at) ==
  /\ chunks' = Append(chunks, Trim(SubSeq(remaining, 1, at)))
  /\ remaining' = Trim(SubSeq(remaining, at + 1, Len(remaining)))

\* C12: an iteration on a text longer than MAX_UTTERANCE_LEN cuts right after the
\* last occurrence (at index <= MAX_UTTERANCE_LEN) of a marker that qualifies (it
\* occurs beyond 0.3 * MAX_UTTERANCE_LEN) and that no qualifying marker outranks:
\* sentence terminators first, then secondary punctuation, then the plain space;
\* and it cuts at MAX_UTTERANCE_LEN exactly when no marker qualifies.
C12_BoundaryPriority ==
  [][IsSplitStep
       => LET ok == {p \in Markers : Qualifies(remaining, p)}
          IN IF ok = {}
               THEN CutAt(MAX_UTTERANCE_LEN) /\ cuts' = cuts + 1
               ELSE /\ cuts' = cuts
                    /\ \E p \in ok :
                         /\ \A q \in ok : MarkerRank(p) <= MarkerRank(q)
                         /\ CutAt(LastOccurrence(remaining, p) + Len(p))]_vars

\* the shape of "Hello world. This is a test.": a sentence end beyond the minimum
\* with a later space still within the limit; the chunk ends at the sentence end
C12_Witness ==
  /\ cpc = "done"
  /\ Len(chunks) >= 2
  /\ Len(chunks[1]) < MAX_UTTERANCE_LEN - 50
  /\ chunks[1][Len(chunks[1])] = "."
  /\ \E i \in (Len(chunks[1]) + 2)..MAX_UTTERANCE_LEN : ctext[i] = " "

-----------------------------------------------------------------------------
(* Session properties (specification Spec)                                 *)

\* the names of the callbacks and backend calls a step made, in order
Names(em) == [i \in 1..Len(em) |-> em[i].n]

\* the step just taken delivered an utterance event to onend/onerror
IsDispatch == events # <<>> /\ events' = Tail(events)

IsBlank(text) == Trim(text) = <<>>

\* C1 (as claimed): once a new session has started, the end/error callback of an
\* utterance submitted before it advances no chunk index, notifies no position and
\* submits no chunk.
C1_StaleCallbackInert ==
  [][(IsDispatch /\ Head(events).stale /\ phase = "live")
       => (currentChunkIdx' = currentChunkIdx /\ emitted' = <<>>)]_vars

\* C2 (as claimed): the backend never holds more than one submitted utterance.
C2_OneInFlight == Len(synth) <= 1

\* C3: from stop() until the next play/playFrom the controller is Stopped, stop()
\* itself notifies the state observers, and no step notifies a position or submits
\* a chunk, whichever callback the cancelled utterance delivers.
C3_StopIsFinal ==
  phase = "stopped"
    => /\ ~isPlaying /\ ~isPaused
       /\ synth = <<>>
       /\ ~Has(emitted, "onSegmentChange") /\ ~Has(emitted, "speak")
       /\ last.op = "stop"
            => /\ Names(emitted) = <<"cancel", "onStateChange">>
               /\ emitted[2].a = FALSE /\ emitted[2].b = FALSE

\* stop() was called with an utterance pending, and that utterance's end callback
\* has since been delivered
C3_Witness ==
  /\ phase = "stopped"
  /\ last = Step("onend", TRUE)
  /\ currentChunkIdx > 0

\* C4 (as claimed): at a resume the cursor and the chunk index are those of the
\* pause, and narration goes on: an utterance is in flight to carry it. Checked on
\* a single session (SpecSolo), where no callback of an earlier session interferes.
C4_ResumeKeepsPosition ==
  last.op = "resume"
    => /\ pauseMark = <<currentSegIdx, currentChunkIdx>>
       /\ Pending > 0

\* C5 (as claimed): onFinished fires at most once per session, only when no utterance
\* of the session is still unresolved, and never once stop() has ended the session.
C5_FinishedAfterAll ==
  /\ finishedCount <= 1
  /\ Has(emitted, "onFinished")
       => /\ synth = <<>>
          /\ \A k \in 1..Len(events) : events[k].stale
  /\ phase = "stopped" => ~Has(emitted, "onFinished")

C7_FinishOrder ==
  /\ Has(emitted, "onFinished")
       => /\ phase = "finished"
          /\ Len(emitted) >= 2
          /\ emitted[Len(emitted)].n = "onFinished"
          /\ emitted[Len(emitted) - 1].n = "onStateChange"
          /\ emitted[Len(emitted) - 1].a = FALSE
          /\ emitted[Len(emitted) - 1].b = FALSE
          /\ \A k \in 1..(Len(emitted) - 2) : emitted[k].n # "onFinished"
  /\ phase = "finished"
       => /\ ~isPlaying /\ ~isPaused
          /\ emitted = <<>> \/ emitted[Len(emitted)].n = "onFinished"

\* a session of several chunks has run to completion through its callbacks, and a
\* callback has been delivered after onFinished
C7_Witness ==
  /\ phase = "finished"
  /\ last.op \in {"onend", "onerror"}
  /\ emitted = <<>>
  /\ Len(posLog) >= 2

\* C15 (as claimed): an error other than interrupted/canceled delivered to a live
\* session (playing or paused) advances the chunk index by one and submits the next
\* chunk of the queue, or finishes the session when there is none. Checked on a
\* single session (SpecSolo), whose only error code is synthesis-failed.
C15_ErrorAdvances ==
  [][(IsDispatch /\ last'.op = "onerror" /\ isPlaying)
       => /\ currentChunkIdx' = currentChunkIdx + 1
          /\ IF currentChunkIdx + 1 < Len(utteranceQueue)
               THEN \E k \in 1..Len(emitted') :
                      /\ emitted'[k].n = "speak"
                      /\ emitted'[k].a = utteranceQueue[currentChunkIdx + 2]
               ELSE Has(emitted', "onFinished") /\ ~isPlaying']_vars

\* C16: an interrupted or canceled error, whenever it is delivered (after stop() in
\* particular), changes nothing in the engine, submits nothing and notifies nobody.
C16_AbortIsNotFailure ==
  [][(\E code \in {"interrupted", "canceled"} : DispatchError(code))
       => /\ UNCHANGED <<engineVars, synth, synthPaused, phase, posLog, finishedCount>>
          /\ emitted' = <<>>]_vars

\* stop() cancelled the first chunk of a session, and the cancelled utterance has
\* delivered its error without the chunk index moving
C16_Witness ==
  /\ phase = "stopped"
  /\ last = Step("onerror", TRUE)
  /\ utteranceQueue # <<>>
  /\ currentChunkIdx = 0
  /\ events = <<>>

StateOf(playing, paused) ==
  IF ~playing THEN "Stopped" ELSE IF paused THEN "Paused" ELSE "Playing"

\* the step just taken ran speakNextChunk on an exhausted queue
IsCompletion ==
  /\ currentChunkIdx' >= Len(utteranceQueue')
  /\ Len(emitted') >= 2
  /\ emitted'[Len(emitted')] = FinishedNote
  /\ emitted'[Len(emitted') - 1] = StateNote(FALSE, FALSE)

-----------------------------------------------------------------------------
(* Properties of the engine as the page drives it (specification SpecUI)   *)

\* C14 (as claimed): the cursor is always an index into the loaded document's
\* segments, or 0 when the document has none.
C14_CursorValid ==
  IF Len(segments) = 0 THEN currentSegIdx = 0
  ELSE currentSegIdx \in 0..(Len(segments) - 1)

\* how many of the notifications em are onStateChange(false, false)
StoppedNotes(em) ==
  Cardinality({k \in 1..Len(em) :
                 em[k].n = "onStateChange" /\ em[k].a = FALSE /\ em[k].b = FALSE})

\* C18 (as claimed): a session started on a document without segments, or at an
\* ordinal at or past its end, submits nothing, throws nothing and is Stopped when
\* the call returns, having notified Stopped once and then onFinished once.
C18_EmptyStartEndsAtOnce ==
  (/\ last.op \in {"play", "playFrom", "restart"}
   /\ Len(segments) = 0 \/ currentSegIdx >= Len(segments))
    => /\ ~isPlaying /\ ~isPaused
       /\ synth = <<>>
       /\ ~Has(emitted, "speak")
       /\ ~Has(emitted, "throw")
       /\ StoppedNotes(emitted) = 1
       /\ Len(emitted) >= 2
       /\ emitted[Len(emitted)] = FinishedNote
       /\ emitted[Len(emitted) - 1] = StateNote(FALSE, FALSE)
       /\ finishedCount = 1

\* C19: a speed, voice or language change with a session live leaves the cursor
\* where it was, every chunk the restart submits belongs to the cursor's segment,
\* and when the cursor is a segment of the document the restart does submit one and
\* the session is live.
C19_RestartKeepsCursor ==
  [][last'.op = "restart"
       => /\ currentSegIdx' = currentSegIdx
          /\ \A k \in 1..Len(emitted') :
               emitted'[k].n = "speak" => emitted'[k].b = currentSegIdx
          /\ currentSegIdx \in 0..(Len(segments) - 1)
               => /\ Has(emitted', "speak")
                  /\ isPlaying' /\ ~isPaused'
                  /\ currentChunkIdx' = 0]_vars

\* a setting was changed while the second segment was being read, and the restart
\* has submitted that segment's first chunk
C19_Witness ==
  /\ last.op = "restart"
  /\ currentSegIdx = 1
  /\ posLog = <<1>>
  /\ Len(synth) = 1
  /\ synth[1].seg = 1
  /\ events # <<>>

C22_RestoreLatest ==
  [][(last'.op = "loadPDF" /\ Len(segments') > 0)
       => currentSegIdx' = IF stored.fileKey = currentFileKey'
                             THEN Min(stored.segIdx, Len(segments') - 1)
                             ELSE 0]_vars

-----------------------------------------------------------------------------
(* Properties of the service workers (SpecSW)                              *)

\* C23: the v4 worker leaves a request to another origin to the browser and starts
\* no cache write for it; it answers a request to its own origin from the caches
\* when they hold it and from the network only when they do not; and after every
\* step the cache liseuse-v4, if it exists, holds nothing outside the app shell.
C23_V4ShellOnly ==
  [][/\ \A req \in Requests, netOk \in BOOLEAN :
          FetchV4(req, netOk) =>
            /\ answer'.worker = "v4" /\ answer'.req = req
            /\ caches' = caches
            /\ puts' = puts
            /\ IF req.origin = "self"
                 THEN /\ answer'.from \in {"cache", "network", "error"}
                      /\ answer'.from = "cache" <=> Match(req)
                      /\ answer'.from = "network" <=> (~Match(req) /\ netOk)
                 ELSE answer'.from \in {"browser", "error"}
     /\ \/ caches'["liseuse-v4"] = Absent
        \/ \A req \in caches'["liseuse-v4"] :
             /\ req.origin = "self"
             /\ req.path \in {"./", "./index.html", "./styles.css", "./app.js",
                              "./manifest.json"}
     /\ \A p \in puts' : p.cache # "liseuse-v4"]_vars

\* the v4 worker, its cache filled with the app shell, has let a request for a model
\* file pass, with a copy of that file held by transformers.js's cache
C23_Witness ==
  /\ swState["v4"] = "activated"
  /\ answer = Answer("v4", Request("huggingface", "model.onnx"), "browser")
  /\ Cardinality(caches["liseuse-v4"]) = 5
  /\ Request("huggingface", "model.onnx") \in caches["transformers-cache"]

\* C24: the v1 and v3 workers answer a request to another origin from the network
\* when the network fetch succeeds, and then start a put of the response into their
\* own cache, which leaves the request in that cache once carried out; they answer
\* from the caches only when the network fetch fails.
C24_NetworkFirst ==
  [][/\ \A req \in Requests, netOk \in BOOLEAN :
          ((FetchV1(req, netOk) \/ FetchV3(req, netOk)) /\ req.origin # "self") =>
            LET own == IF answer'.worker = "v1" THEN "liseuse-v1" ELSE "liseuse-v3"
            IN /\ answer'.worker \in {"v1", "v3"} /\ answer'.req = req
               /\ answer'.from = "network" <=> netOk
               /\ answer'.from = "cache" <=> (~netOk /\ Match(req))
               /\ netOk => [cache |-> own, req |-> req] \in puts'
               /\ ~netOk => puts' = puts
     /\ \A p \in puts : PutDone(p) =>
          /\ caches'[p.cache] # Absent
          /\ p.req \in caches'[p.cache]]_vars

\* the v3 worker has answered a request for a PDF.js file from the network, and the
\* copy is in its cache
C24_Witness ==
  /\ swState["v3"] = "activated"
  /\ answer = Answer("v3", Request("cdnjs", "pdf.min.mjs"), "network")
  /\ puts = {}
  /\ caches["liseuse-v3"] # Absent
  /\ Request("cdnjs", "pdf.min.mjs") \in caches["liseuse-v3"]

\* C25: a worker's activation leaves in existence, of the caches there were, its
\* own and, for v4, those named transformers...; these keep their entries, and every
\* other cache is gone.
C25_ActivateCleans ==
  [][\A v \in {"v1", "v3", "v4"} :
       Activate(v) =>
         LET own == CASE v = "v1" -> "liseuse-v1"
                      [] v = "v3" -> "liseuse-v3"
                      [] v = "v4" -> "liseuse-v4"
         IN /\ caches[own] # Absent
            /\ \A k \in CacheNames :
                 IF k = own \/ (v = "v4" /\ k = "transformers-cache")
                   THEN caches'[k] = caches[k]
                   ELSE caches'[k] = Absent]_vars

\* v4 has taken over from v3: v3's cache and my-transformers are gone,
\* transformers-cache and v4's own cache are there
C25_Witness ==
  /\ swState["v4"] = "activated"
  /\ swState["v3"] = "redundant"
  /\ caches["liseuse-v3"] = Absent
  /\ caches["my-transformers"] = Absent
  /\ caches["transformers-cache"] # Absent
  /\ caches["liseuse-v4"] # Absent
  /\ answer.worker = "v3"

-----------------------------------------------------------------------------
(* Further properties of the engine (Spec, SpecSolo)                       *)

\* C26 (as claimed): a step notifies a position change for a segment only when it is
\* the end callback of an utterance carrying a chunk of that segment; no step that
\* merely submits a chunk of a segment notifies that segment.
C26_NotifyAfterCompletion ==
  [][\A k \in 1..Len(emitted') :
       emitted'[k].n = "onSegmentChange"
         => /\ IsDispatch
            /\ last'.op = "onend"
            /\ Head(events).seg = emitted'[k].a]_vars

\* C27 (as claimed): while the engine is playing and not paused, the backend holds
\* an utterance of the current session, being spoken or with its terminal event
\* still to be delivered.
C27_PlayingHasUtterance ==
  (isPlaying /\ ~isPaused)
    => \/ \E k \in 1..Len(synth) : ~synth[k].stale
       \/ \E k \in 1..Len(events) : ~events[k].stale

\* C28 (as claimed): between stop() and the next play or playFrom, no end or error
\* callback moves the cursor.
C28_StopFreezesCursor ==
  [][(phase = "stopped" /\ IsDispatch) => currentSegIdx' = currentSegIdx]_vars

\* C29 (as claimed): the chunk index lies between 0 and the length of the queue.
C29_ChunkIdxInRange ==
  currentChunkIdx \in 0..Len(utteranceQueue)

\* C30: the engine is never paused without being playing.
C30_PausedImpliesPlaying ==
  isPaused => isPlaying

\* paused, with a callback of the paused session delivered since and the session
\* still at its last chunk's end
C30_Witness ==
  /\ isPaused
  /\ isPlaying
  /\ last.op = "onend"
  /\ currentChunkIdx = Len(utteranceQueue)

-----------------------------------------------------------------------------
(* The queue buildQueue leaves (SpecUI)                                    *)

\* the queue and the map as the step leaves them, for a buildQueue from `start`:
\* of one length, the map non-decreasing and within start..(segment count - 1), and
\* each chunk one of the segment the map gives for it
BuiltFrom(start) ==
  /\ Len(utteranceQueue') = Len(chunkSegmentMap')
  /\ \A k \in 1..(Len(chunkSegmentMap') - 1) :
       chunkSegmentMap'[k] <= chunkSegmentMap'[k + 1]
  /\ \A k \in 1..Len(chunkSegmentMap') :
       /\ chunkSegmentMap'[k] >= start
       /\ chunkSegmentMap'[k] <= Len(segments) - 1
       /\ utteranceQueue'[k][1] = segments[chunkSegmentMap'[k] + 1]

\* C31: every step that runs buildQueue (play past its resume branch, playFrom from
\* a tap, the restart of a setting change) leaves utteranceQueue and chunkSegmentMap
\* of the same length, the map non-decreasing with every entry between the start
\* ordinal and the last segment, and each chunk cut from the segment its entry names.
C31_QueueMapAligned ==
  [][/\ last'.op \in {"play", "restart"} => BuiltFrom(currentSegIdx)
     /\ last'.op = "playFrom" =>
          \E i \in 0..(Len(segments) - 1) : PlayFrom(i) /\ BuiltFrom(i)]_vars

\* a session started at the first segment of long.pdf: two chunks of the first
\* segment and one of the second
C31_Witness ==
  /\ last.op \in {"play", "playFrom"}
  /\ Len(segments) = 2
  /\ Len(utteranceQueue) = 3
  /\ chunkSegmentMap = <<0, 0, 1>>

====
